---- MODULE Spec2Model ----
(***************************************************************************)
(* Model of scheduler.c: a fixed-size, tick-driven cooperative scheduler.  *)
(* The state is the three file-scope statics (task_array, tasks_counter,   *)
(* scheduler_status) plus the position of the main context.  History       *)
(* variables (op, arg, ret, before, calls, regd, nticks, since, ticked)     *)
(* record what the last call was, what it returned and which callbacks it  *)
(* invoked.                                                                *)
(***************************************************************************)
EXTENDS Integers, Sequences, FiniteSets, TLC

(* ------------------------------ bounds --------------------------------- *)
\* capacity of the table (MAX_TASKS of scheduler.h, a build-time setting)
MAX_TASKS == 2
\* largest delay / period passed to scheduler_add_task
MaxDelay == 2
MaxPeriod == 1

(* ----------------------------- constants ------------------------------- *)
NULL == 0

\* sch_sts_t
SCH_STATUS_OK == 0
SCH_ERROR == -1

\* sch_flags_t: bit positions in scheduler_status
SCH_STATUS_FLAG == 0
SCH_TASK_CREATE_FLAG == 1
SCH_TASK_DELETE_FLAG == 2
SCH_OVERFLOW_TASK_FLAG == 3
SCH_RUN_FLAG == 4

\* task status values (scheduler.h)
STOPPED == "STOPPED"
RUN_ALWAYS == "RUN_ALWAYS"
READY == "READY"
RUNNING == "RUNNING"
SUSPENDED == "SUSPENDED"

Slots == 0 .. (MAX_TASKS - 1)
\* the callback functions of the application (non-NULL function pointers)
Tasks == {1, 2}
\* the (non-NULL) parameter pointer and name pointer passed with a callback
Params == {1}
Names == {1}
Delays == 0 .. MaxDelay
Periods == 0 .. MaxPeriod

(* --------------------------- bit macros -------------------------------- *)
Pow2(b) == CASE b = 0 -> 1 [] b = 1 -> 2 [] b = 2 -> 4 [] b = 3 -> 8
             [] b = 4 -> 16 [] b = 5 -> 32 [] b = 6 -> 64 [] OTHER -> 128

BIT_GET(REG, BIT) == (REG \div Pow2(BIT)) % 2

BIT_SET(REG, BIT) == IF BIT_GET(REG, BIT) = 1 THEN REG ELSE REG + Pow2(BIT)

BIT_CLEAR(REG, BIT) == IF BIT_GET(REG, BIT) = 1 THEN REG - Pow2(BIT) ELSE REG

(* ------------------------ uint32_t arithmetic -------------------------- *)
(* A uint32_t x is held as the integer c with x = c when c >= 0 and        *)
(* x = 2^32 + c when c < 0 (two's complement), so that 0 - 1 is the        *)
(* value 0xFFFFFFFF without leaving the range of small integers.           *)
U32Lt(a, b) == IF a < 0 THEN (b < 0 /\ a < b) ELSE (b < 0 \/ a < b)

U32Le(a, b) == a = b \/ U32Lt(a, b)

(* ------------------------------ state ---------------------------------- *)
VARIABLES
  task_array,        \* static task_t task_array[MAX_TASKS]
  tasks_counter,     \* static uint32_t tasks_counter
  scheduler_status,  \* static uint8_t scheduler_status
  pc,                \* main context: "main", "halt" in scheduler_start's while(1), or
                     \* the statement of scheduler_dispatch_task it is at when the tick
                     \* may preempt it
  d_index,           \* the loop variable index of scheduler_dispatch_task at that statement
  op,                \* history: name of the last call
  arg,               \* history: its argument (the callback of add, the index of delete)
  ret,               \* history: its return value
  calls,             \* history: per slot, callback invocations of the last dispatch pass
  regd,              \* history: per slot, the delay its periodic task was registered with
  nticks,            \* history: per slot, tick calls since its periodic task was registered
                     \* (both kept until the tick after the first one that sets it READY,
                     \*  then nticks = TickCap and regd = 0)
  since,             \* history: per slot, tick calls since tick last set it READY (-1: never)
  before,            \* history: scheduler_status before the last call
  ticked             \* history: per slot, tick wrote READY while dispatch was past the
                     \* callback of that slot and dispatch has not picked it up since

vars == <<task_array, tasks_counter, scheduler_status, pc, d_index, op, arg, ret, calls,
          regd, nticks, since, before, ticked>>

\* a zero-initialised task_t; STOPPED is taken to be the value 0 of the status
\* type, the status scheduler_delete_task gives an empty slot
EmptyTask ==
  [ptask |-> NULL, task_name |-> NULL, delay |-> 0, period |-> 0,
   status |-> STOPPED, task_handler |-> [index |-> 0, parameter |-> NULL]]

NoCalls == [i \in Slots |-> 0]

TickCap == MaxDelay + 2
SinceCap == MaxPeriod + 2

Init ==
  /\ task_array = [i \in Slots |-> EmptyTask]
  /\ tasks_counter = 0
  /\ scheduler_status = 0
  /\ pc = "main"
  /\ op = "init"
  /\ arg = 0
  /\ ret = SCH_STATUS_OK
  /\ calls = NoCalls
  /\ regd = [i \in Slots |-> 0]
  /\ nticks = [i \in Slots |-> 0]
  /\ since = [i \in Slots |-> -1]
  /\ d_index = 0
  /\ before = 0
  /\ ticked = [i \in Slots |-> FALSE]

(* ------------------------- scheduler_update ---------------------------- *)
\* the test of line 134: tick writes READY into this record
SetsReady(t) ==
  t.ptask # NULL /\ t.delay = 0 /\ t.status # RUN_ALWAYS /\ t.status # SUSPENDED

\* mutant: the delay is counted down before it is tested, so that READY is
\* written by the call that brings it to 0
UpdateTask_CountFirst(t) ==
  IF NULL # t.ptask
    THEN LET left == IF t.delay > 0 THEN t.delay - 1 ELSE 0 IN
         IF 0 = left
           THEN [t EXCEPT
                   !.status = IF t.status # RUN_ALWAYS /\ t.status # SUSPENDED
                                THEN READY ELSE @,
                   !.delay = IF t.period > 0 THEN t.period ELSE 0]
           ELSE [t EXCEPT !.delay = left]
    ELSE t

\* mutant: the reload is period - 1
UpdateTask_ReloadMinus1(t) ==
  IF NULL # t.ptask
    THEN IF 0 = t.delay
           THEN [t EXCEPT
                   !.status = IF t.status # RUN_ALWAYS /\ t.status # SUSPENDED
                                THEN READY ELSE @,
                   !.delay = IF t.period > 0 THEN t.period - 1 ELSE @]
           ELSE [t EXCEPT !.delay = @ - 1]
    ELSE t

\* mutant: the slot is not tested for a task
UpdateTask_NoNullTest(t) ==
  IF 0 = t.delay
    THEN [t EXCEPT
            !.status = IF t.status # RUN_ALWAYS /\ t.status # SUSPENDED
                         THEN READY ELSE @,
            !.delay = IF t.period > 0 THEN t.period ELSE @]
    ELSE [t EXCEPT !.delay = @ - 1]

\* mutant: READY is written whatever the status
UpdateTask_NoStatusTest(t) ==
  IF NULL # t.ptask
    THEN IF 0 = t.delay
           THEN [t EXCEPT !.status = READY,
                          !.delay = IF t.period > 0 THEN t.period ELSE @]
           ELSE [t EXCEPT !.delay = @ - 1]
    ELSE t

\* the loop body of scheduler_update on one record
UpdateTask(t) ==
  IF NULL # t.ptask
    THEN IF 0 = t.delay
           THEN [t EXCEPT
                   !.status = IF t.status # RUN_ALWAYS /\ t.status # SUSPENDED
                                THEN READY ELSE @,
                   !.delay = IF t.period > 0 THEN t.period ELSE @]
           ELSE [t EXCEPT !.delay = @ - 1]
    ELSE t

Min(a, b) == IF a < b THEN a ELSE b

\* scheduler_dispatch_task has called the callback of slot i and has not yet
\* finished with the slot
AfterCallback(i) == pc \in {"if_running", "set_stopped", "if_period"} /\ d_index = i

\* the tick interrupt: runs at any position of the main context
scheduler_update ==
  /\ task_array' = [i \in Slots |-> UpdateTask(task_array[i])]
  /\ nticks' = [i \in Slots |->
                  IF task_array[i].ptask = NULL \/ task_array[i].period = 0 THEN nticks[i]
                  ELSE IF since[i] >= 0 THEN TickCap
                  ELSE nticks[i] + 1]
  /\ regd' = [i \in Slots |->
                IF task_array[i].ptask # NULL /\ since[i] >= 0 THEN 0 ELSE regd[i]]
  /\ since' = [i \in Slots |->
                 IF SetsReady(task_array[i]) THEN 0
                 ELSE IF task_array[i].ptask # NULL /\ since[i] >= 0
                        THEN Min(since[i] + 1, SinceCap)
                        ELSE since[i]]
  /\ ticked' = [i \in Slots |->
                  ticked[i] \/ (SetsReady(task_array[i]) /\ AfterCallback(i))]
  /\ op' = "tick"
  /\ arg' = 0
  /\ ret' = SCH_STATUS_OK
  /\ before' = scheduler_status
  /\ calls' = IF pc \in {"main", "halt", "fault"} THEN NoCalls ELSE calls
  /\ UNCHANGED <<tasks_counter, scheduler_status, pc, d_index>>

(* ------------------------ scheduler_add_task --------------------------- *)
\* mutant: the scan stops one slot short of the end of the table
IsRegistered_ShortScan(arr, task) ==
  \E task_index \in 0 .. (MAX_TASKS - 2) : arr[task_index].ptask = task

\* mutant: the scan starts at slot 1
IsRegistered_FromOne(arr, task) ==
  \E task_index \in 1 .. (MAX_TASKS - 1) : arr[task_index].ptask = task

\* the duplicate scan of lines 229-237
IsRegistered(arr, task) == \E task_index \in Slots : arr[task_index].ptask = task

\* mutant: every task starts STOPPED
InitialStatus_Stopped(period) == STOPPED

\* lines 246-253
InitialStatus(period) == IF 0 = period THEN RUN_ALWAYS ELSE STOPPED

\* mutant of the flag update of line 258: a successful add leaves the create flag
AddOkStatus_Keep(status) == status

\* line 258: the status byte after a successful add
AddOkStatus(status) == BIT_CLEAR(status, SCH_TASK_CREATE_FLAG)

\* the record written by lines 241-256 into slot idx
NewTask(task, task_name, task_param, delay, period, idx) ==
  [ptask |-> task, task_name |-> task_name, delay |-> delay, period |-> period,
   status |-> InitialStatus(period),
   task_handler |-> [index |-> idx, parameter |-> task_param]]

\* mutant: <= for <
TableHasRoom_Le(cnt) == U32Le(cnt, MAX_TASKS)

\* the capacity test of line 226
TableHasRoom(cnt) == U32Lt(cnt, MAX_TASKS)

scheduler_add_task(task, task_name, task_param, delay, period) ==
  /\ pc = "main"
  /\ op' = "add"
  /\ arg' = task
  /\ before' = scheduler_status
  /\ calls' = NoCalls
  /\ UNCHANGED <<pc, d_index>>
  /\ IF TableHasRoom(tasks_counter)
       THEN IF IsRegistered(task_array, task)
              THEN /\ scheduler_status' = BIT_SET(scheduler_status, SCH_TASK_CREATE_FLAG)
                   /\ ret' = SCH_ERROR
                   /\ UNCHANGED <<task_array, tasks_counter, regd, nticks, since, ticked>>
              ELSE /\ task_array' = [task_array EXCEPT ![tasks_counter] =
                         NewTask(task, task_name, task_param, delay, period, tasks_counter)]
                   /\ tasks_counter' = tasks_counter + 1
                   /\ scheduler_status' = AddOkStatus(scheduler_status)
                   /\ ret' = SCH_STATUS_OK
                   /\ regd' = [regd EXCEPT ![tasks_counter] = IF period > 0 THEN delay ELSE 0]
                   /\ nticks' = [nticks EXCEPT ![tasks_counter] = 0]
                   /\ since' = [since EXCEPT ![tasks_counter] = -1]
                   /\ ticked' = [ticked EXCEPT ![tasks_counter] = FALSE]
       ELSE /\ scheduler_status' =
                 BIT_SET(BIT_SET(scheduler_status, SCH_TASK_CREATE_FLAG), SCH_STATUS_FLAG)
            /\ ret' = SCH_ERROR
            /\ UNCHANGED <<task_array, tasks_counter, regd, nticks, since, ticked>>

AddTask ==
  \E task \in Tasks, task_name \in Names, task_param \in Params,
     delay \in Delays, period \in Periods :
    scheduler_add_task(task, task_name, task_param, delay, period)

(* ----------------------- scheduler_delete_task ------------------------- *)
\* mutant: the status is left as it is
ClearTask_KeepStatus(t) ==
  [t EXCEPT !.ptask = NULL, !.task_handler = [index |-> 0, parameter |-> NULL],
            !.delay = 0]

\* lines 278-282: the fields delete clears (period and task_name are left)
ClearTask(t) ==
  [t EXCEPT !.ptask = NULL, !.task_handler = [index |-> 0, parameter |-> NULL],
            !.delay = 0, !.status = STOPPED]

\* mutant: the counter is decremented whether or not the slot held a task
DeleteTask_Unguarded(arr, cnt, index) ==
  [arr |-> [arr EXCEPT ![index] = ClearTask(arr[index])], cnt |-> cnt - 1]

\* scheduler_delete_task on the pair <<table, counter>>
DeleteTask(arr, cnt, index) ==
  IF NULL # arr[index].ptask
    THEN [arr |-> [arr EXCEPT ![index] = ClearTask(arr[index])], cnt |-> cnt - 1]
    ELSE [arr |-> arr, cnt |-> cnt]

scheduler_delete_task(index) ==
  /\ pc = "main"
  /\ LET d == DeleteTask(task_array, tasks_counter, index) IN
       /\ task_array' = d.arr
       /\ tasks_counter' = d.cnt
       /\ regd' = IF NULL # task_array[index].ptask
                    THEN [regd EXCEPT ![index] = 0] ELSE regd
       /\ nticks' = IF NULL # task_array[index].ptask
                      THEN [nticks EXCEPT ![index] = 0] ELSE nticks
       /\ since' = IF NULL # task_array[index].ptask
                     THEN [since EXCEPT ![index] = -1] ELSE since
       /\ ticked' = [ticked EXCEPT ![index] = FALSE]
  /\ op' = "delete"
  /\ arg' = index
  /\ ret' = SCH_STATUS_OK
  /\ before' = scheduler_status
  /\ calls' = NoCalls
  /\ UNCHANGED <<scheduler_status, pc, d_index>>

RemoveTask == \E index \in Slots : scheduler_delete_task(index)

(* ----------------------- scheduler_dispatch_task ----------------------- *)
(* A callback is code of the application: it is modelled as returning      *)
(* without touching the scheduler's state.  st carries the table, the      *)
(* counter, the invocations so far and whether a NULL pointer was called.  *)
CallTask(index, st) ==
  IF st.arr[index].ptask = NULL
    THEN [st EXCEPT !.fault = TRUE]
    ELSE [st EXCEPT !.calls[index] = @ + 1]

\* lines 295-298
DispatchAlways(index, st) ==
  IF st.arr[index].status = RUN_ALWAYS THEN CallTask(index, st) ELSE st

\* lines 300-315
DispatchReady(index, st) ==
  IF st.arr[index].status = READY
    THEN LET s1 == [st EXCEPT !.arr[index].status = RUNNING]
             s2 == CallTask(index, s1)
             s3 == IF RUNNING = s2.arr[index].status
                     THEN [s2 EXCEPT !.arr[index].status = STOPPED] ELSE s2
         IN  IF 0 = s3.arr[index].period
               THEN LET d == DeleteTask(s3.arr, s3.cnt, index)
                    IN  [s3 EXCEPT !.arr = d.arr, !.cnt = d.cnt]
               ELSE s3
    ELSE st

\* one iteration of the for loop
DispatchTask(index, st) == DispatchReady(index, DispatchAlways(index, st))

\* the for loop of lines 293-316, from index on
RECURSIVE DispatchLoop(_, _)
DispatchLoop(index, st) ==
  IF U32Lt(index, st.cnt)
    THEN DispatchLoop(index + 1, DispatchTask(index, st))
    ELSE st

scheduler_dispatch_task ==
  /\ pc = "main"
  /\ U32Le(tasks_counter, MAX_TASKS)
  /\ LET st == DispatchLoop(0, [arr |-> task_array, cnt |-> tasks_counter,
                                calls |-> NoCalls, fault |-> FALSE]) IN
       /\ task_array' = st.arr
       /\ tasks_counter' = st.cnt
       /\ calls' = st.calls
       /\ pc' = IF st.fault THEN "fault" ELSE pc
       /\ regd' = [i \in Slots |-> IF st.arr[i].ptask = NULL THEN 0 ELSE regd[i]]
       /\ nticks' = [i \in Slots |-> IF st.arr[i].ptask = NULL THEN 0 ELSE nticks[i]]
       /\ since' = [i \in Slots |-> IF st.arr[i].ptask = NULL THEN -1 ELSE since[i]]
  /\ op' = "dispatch"
  /\ arg' = 0
  /\ ret' = SCH_STATUS_OK
  /\ before' = scheduler_status
  /\ UNCHANGED <<scheduler_status, d_index, ticked>>

(* --------------------------- scheduler_start --------------------------- *)
\* mutant: the create flag is not tested
StartOk_NoCreateFlag(status, cnt) ==
  /\ SCH_STATUS_OK = BIT_GET(status, SCH_STATUS_FLAG)
  /\ SCH_STATUS_OK = BIT_GET(status, SCH_OVERFLOW_TASK_FLAG)
  /\ SCH_STATUS_OK = BIT_GET(status, SCH_TASK_DELETE_FLAG)
  /\ SCH_STATUS_OK = BIT_GET(status, SCH_RUN_FLAG)
  /\ U32Lt(0, cnt)
  /\ U32Le(cnt, MAX_TASKS)

\* the condition of lines 196-202
StartOk(status, cnt) ==
  /\ SCH_STATUS_OK = BIT_GET(status, SCH_STATUS_FLAG)
  /\ SCH_STATUS_OK = BIT_GET(status, SCH_OVERFLOW_TASK_FLAG)
  /\ SCH_STATUS_OK = BIT_GET(status, SCH_TASK_CREATE_FLAG)
  /\ SCH_STATUS_OK = BIT_GET(status, SCH_TASK_DELETE_FLAG)
  /\ SCH_STATUS_OK = BIT_GET(status, SCH_RUN_FLAG)
  /\ U32Lt(0, cnt)
  /\ U32Le(cnt, MAX_TASKS)

scheduler_start ==
  /\ pc = "main"
  /\ IF StartOk(scheduler_status, tasks_counter)
       THEN /\ scheduler_status' = BIT_CLEAR(scheduler_status, SCH_RUN_FLAG)
            /\ ret' = SCH_STATUS_OK
            /\ pc' = "main"
       ELSE /\ scheduler_status' = scheduler_status
            /\ ret' = SCH_ERROR
            /\ pc' = "halt"
  /\ op' = "start"
  /\ arg' = 0
  /\ before' = scheduler_status
  /\ calls' = NoCalls
  /\ UNCHANGED <<task_array, tasks_counter, regd, nticks, since, d_index, ticked>>

(* --------------------------- scheduler_init ---------------------------- *)
\* the loop of lines 165-173; scheduler_delete_task always returns SCH_STATUS_OK,
\* so the loop never breaks
RECURSIVE InitLoop(_, _)
InitLoop(task_index, d) ==
  IF task_index < MAX_TASKS
    THEN InitLoop(task_index + 1, DeleteTask(d.arr, d.cnt, task_index))
    ELSE d

\* scheduler_init called again by the application, on whatever the table holds
scheduler_init ==
  /\ pc = "main"
  /\ LET d == InitLoop(0, [arr |-> task_array, cnt |-> 0]) IN
       /\ task_array' = d.arr
       /\ tasks_counter' = d.cnt
  /\ scheduler_status' = BIT_CLEAR(BIT_CLEAR(0, SCH_STATUS_FLAG), SCH_RUN_FLAG)
  /\ op' = "init"
  /\ arg' = 0
  /\ ret' = SCH_STATUS_OK
  /\ calls' = NoCalls
  /\ regd' = [i \in Slots |-> 0]
  /\ nticks' = [i \in Slots |-> 0]
  /\ since' = [i \in Slots |-> -1]
  /\ before' = scheduler_status
  /\ ticked' = [i \in Slots |-> FALSE]
  /\ UNCHANGED <<pc, d_index>>

(* scheduler_dispatch_task with tasks_counter above MAX_TASKS: the loop     *)
(* handles the slots of the table as usual and then reads task_array past  *)
(* its end, which is undefined: the call either comes back having found    *)
(* nothing to run there, or the program faults.                            *)
scheduler_dispatch_overrun ==
  /\ pc = "main"
  /\ ~U32Le(tasks_counter, MAX_TASKS)
  /\ LET st == DispatchLoop(0, [arr |-> task_array, cnt |-> MAX_TASKS,
                                calls |-> NoCalls, fault |-> FALSE]) IN
       /\ task_array' = st.arr
       /\ tasks_counter' = tasks_counter - (MAX_TASKS - st.cnt)
       /\ calls' = st.calls
       /\ pc' \in IF st.fault THEN {"fault"} ELSE {"main", "fault"}
       /\ regd' = [i \in Slots |-> IF st.arr[i].ptask = NULL THEN 0 ELSE regd[i]]
       /\ nticks' = [i \in Slots |-> IF st.arr[i].ptask = NULL THEN 0 ELSE nticks[i]]
       /\ since' = [i \in Slots |-> IF st.arr[i].ptask = NULL THEN -1 ELSE since[i]]
  /\ op' = "dispatch"
  /\ arg' = 0
  /\ ret' = SCH_STATUS_OK
  /\ before' = scheduler_status
  /\ UNCHANGED <<scheduler_status, d_index, ticked>>

(* ------------- scheduler_dispatch_task, statement by statement --------- *)
(* The same function with the tick interrupt allowed between any two of    *)
(* its statements: pc names the statement the main context is at, d_index  *)
(* is the loop variable.  The tick itself runs to completion.              *)
DispatchFrame == UNCHANGED <<scheduler_status, op, arg, ret, before>>

\* entry, index = 0 (line 293)
dispatch_enter ==
  /\ pc = "main"
  /\ pc' = "for"
  /\ d_index' = 0
  /\ calls' = NoCalls
  /\ op' = "dispatch"
  /\ arg' = 0
  /\ ret' = SCH_STATUS_OK
  /\ before' = scheduler_status
  /\ UNCHANGED <<task_array, tasks_counter, scheduler_status, regd, nticks, since, ticked>>

\* index < tasks_counter (line 293); the function returns when it fails
dispatch_for ==
  /\ pc = "for"
  /\ IF U32Lt(d_index, tasks_counter)
       THEN pc' = "if_always" /\ d_index' = d_index
       ELSE pc' = "main" /\ d_index' = 0
  /\ DispatchFrame
  /\ UNCHANGED <<task_array, tasks_counter, calls, regd, nticks, since, ticked>>

\* line 295
dispatch_if_always ==
  /\ pc = "if_always"
  /\ pc' = IF task_array[d_index].status = RUN_ALWAYS THEN "call_always" ELSE "if_ready"
  /\ DispatchFrame
  /\ UNCHANGED <<task_array, tasks_counter, d_index, calls, regd, nticks, since, ticked>>

\* line 297
dispatch_call_always ==
  /\ pc = "call_always"
  /\ LET st == CallTask(d_index, [arr |-> task_array, cnt |-> tasks_counter,
                                  calls |-> calls, fault |-> FALSE]) IN
       /\ calls' = st.calls
       /\ pc' = IF st.fault THEN "fault" ELSE "if_ready"
  /\ DispatchFrame
  /\ UNCHANGED <<task_array, tasks_counter, d_index, regd, nticks, since, ticked>>

\* line 300
dispatch_if_ready ==
  /\ pc = "if_ready"
  /\ pc' = IF task_array[d_index].status = READY THEN "set_running" ELSE "next"
  /\ DispatchFrame
  /\ UNCHANGED <<task_array, tasks_counter, d_index, calls, regd, nticks, since, ticked>>

\* line 302
dispatch_set_running ==
  /\ pc = "set_running"
  /\ task_array' = [task_array EXCEPT ![d_index].status = RUNNING]
  /\ ticked' = [ticked EXCEPT ![d_index] = FALSE]
  /\ pc' = "call_ready"
  /\ DispatchFrame
  /\ UNCHANGED <<tasks_counter, d_index, calls, regd, nticks, since>>

\* line 304
dispatch_call_ready ==
  /\ pc = "call_ready"
  /\ LET st == CallTask(d_index, [arr |-> task_array, cnt |-> tasks_counter,
                                  calls |-> calls, fault |-> FALSE]) IN
       /\ calls' = st.calls
       /\ pc' = IF st.fault THEN "fault" ELSE "if_running"
  /\ DispatchFrame
  /\ UNCHANGED <<task_array, tasks_counter, d_index, regd, nticks, since, ticked>>

\* line 306
dispatch_if_running ==
  /\ pc = "if_running"
  /\ pc' = IF RUNNING = task_array[d_index].status THEN "set_stopped" ELSE "if_period"
  /\ DispatchFrame
  /\ UNCHANGED <<task_array, tasks_counter, d_index, calls, regd, nticks, since, ticked>>

\* line 308
dispatch_set_stopped ==
  /\ pc = "set_stopped"
  /\ task_array' = [task_array EXCEPT ![d_index].status = STOPPED]
  /\ pc' = "if_period"
  /\ DispatchFrame
  /\ UNCHANGED <<tasks_counter, d_index, calls, regd, nticks, since, ticked>>

\* lines 311-314
dispatch_if_period ==
  /\ pc = "if_period"
  /\ LET d == IF 0 = task_array[d_index].period
                THEN DeleteTask(task_array, tasks_counter, d_index)
                ELSE [arr |-> task_array, cnt |-> tasks_counter] IN
       /\ task_array' = d.arr
       /\ tasks_counter' = d.cnt
       /\ regd' = [i \in Slots |-> IF d.arr[i].ptask = NULL THEN 0 ELSE regd[i]]
       /\ nticks' = [i \in Slots |-> IF d.arr[i].ptask = NULL THEN 0 ELSE nticks[i]]
       /\ since' = [i \in Slots |-> IF d.arr[i].ptask = NULL THEN -1 ELSE since[i]]
       /\ ticked' = [i \in Slots |-> IF d.arr[i].ptask = NULL THEN FALSE ELSE ticked[i]]
  /\ pc' = "next"
  /\ DispatchFrame
  /\ UNCHANGED <<d_index, calls>>

\* index++ (line 293)
dispatch_next ==
  /\ pc = "next"
  /\ d_index' = d_index + 1
  /\ pc' = "for"
  /\ DispatchFrame
  /\ UNCHANGED <<task_array, tasks_counter, calls, regd, nticks, since, ticked>>

(* --------------------------- specifications ---------------------------- *)
\* the calls of the application after the one scheduler_init, and the tick
Next ==
  \/ AddTask
  \/ RemoveTask
  \/ scheduler_update
  \/ scheduler_dispatch_task
  \/ scheduler_start

Spec == Init /\ [][Next]_vars

\* the same, with scheduler_init called again at any time
NextReinit ==
  \/ Next
  \/ scheduler_init
  \/ scheduler_dispatch_overrun

SpecReinit == Init /\ [][NextReinit]_vars

\* register, remove and dispatch in the main context, dispatch one statement
\* at a time, and the tick at any point between them
NextPreempt ==
  \/ AddTask
  \/ RemoveTask
  \/ scheduler_update
  \/ dispatch_enter
  \/ dispatch_for
  \/ dispatch_if_always
  \/ dispatch_call_always
  \/ dispatch_if_ready
  \/ dispatch_set_running
  \/ dispatch_call_ready
  \/ dispatch_if_running
  \/ dispatch_set_stopped
  \/ dispatch_if_period
  \/ dispatch_next

SpecPreempt == Init /\ [][NextPreempt]_vars

TypeOK ==
  /\ tasks_counter \in (0 - MAX_TASKS) .. MAX_TASKS
  /\ scheduler_status \in 0 .. 255
  /\ pc \in {"main", "halt", "fault", "for", "if_always", "call_always", "if_ready",
            "set_running", "call_ready", "if_running", "set_stopped", "if_period", "next"}
  /\ d_index \in 0 .. MAX_TASKS
  /\ op \in {"init", "add", "delete", "tick", "dispatch", "start"}
  /\ \A i \in Slots :
       /\ task_array[i].ptask \in Tasks \cup {NULL}
       /\ task_array[i].delay \in Delays \cup Periods
       /\ task_array[i].period \in Periods
       /\ task_array[i].status \in {STOPPED, RUN_ALWAYS, READY, RUNNING, SUSPENDED}

(* ------------------------------ claims --------------------------------- *)
NumActive == Cardinality({i \in Slots : task_array[i].ptask # NULL})

\* slot i holds a periodic task registered with a delay d > 0 that tick has
\* not yet set READY twice
Counting(i) ==
  /\ task_array[i].ptask # NULL
  /\ task_array[i].period > 0
  /\ regd[i] > 0

C1_StillStopped ==
  \A i \in Slots :
    (Counting(i) /\ nticks[i] <= regd[i]) =>
      (task_array[i].status = STOPPED /\ task_array[i].delay = regd[i] - nticks[i])

C2_ReadyEveryPeriod ==
  [][op' = "tick" =>
       \A i \in Slots :
         (/\ task_array[i].ptask # NULL
          /\ task_array[i].period > 0
          /\ since[i] >= 0
          /\ task_array[i].status = STOPPED
          /\ task_array'[i].status = READY) =>
           since[i] + 1 = task_array[i].period]_vars

(* C3: every dispatch call invokes, exactly once, the callback of every    *)
(* task that is registered with period 0 when dispatch is called.          *)
C3_AlwaysTaskRuns ==
  [][op' = "dispatch" =>
       \A i \in Slots :
         (task_array[i].ptask # NULL /\ task_array[i].period = 0) =>
           calls'[i] = 1]_vars

(* C4: for every active slot whose status is READY when dispatch is        *)
(* called, that call invokes its callback exactly once and leaves its      *)
(* status STOPPED.                                                         *)
C4_ReadyTaskRunsOnce ==
  [][op' = "dispatch" =>
       \A i \in Slots :
         (task_array[i].ptask # NULL /\ task_array[i].status = READY) =>
           (calls'[i] = 1 /\ task_array'[i].status = STOPPED)]_vars

(* C5: tasks_counter equals the number of slots whose callback is not      *)
(* NULL.                                                                   *)
C5_CounterIsActiveCount == tasks_counter = NumActive

(* C6: a successful register fills a slot that was free before the call    *)
(* and leaves the record of every task that was already active unchanged.  *)
C6_AddFillsFreeSlot ==
  [][(op' = "add" /\ ret' = SCH_STATUS_OK) =>
       /\ \E j \in Slots :
            /\ task_array[j].ptask = NULL
            /\ task_array'[j].ptask = arg'
       /\ \A i \in Slots :
            task_array[i].ptask # NULL => task_array'[i] = task_array[i]]_vars

(* C7: register called with the callback of a currently active slot        *)
(* returns failure and leaves the active count and every slot unchanged.   *)
C7_DuplicateRejected ==
  [][(op' = "add" /\ \E i \in Slots : task_array[i].ptask = arg') =>
       /\ ret' = SCH_ERROR
       /\ tasks_counter' = tasks_counter
       /\ task_array' = task_array]_vars

\* a duplicate was just rejected while the table had room, the duplicate
\* sitting in a slot at or above tasks_counter
C7_Witness ==
  /\ op = "add"
  /\ ret = SCH_ERROR
  /\ tasks_counter < MAX_TASKS
  /\ \E i \in Slots : i >= tasks_counter /\ task_array[i].ptask = arg

(* C8: the active count stays within 0 .. MAX_TASKS, and a register call   *)
(* made while it equals MAX_TASKS returns failure and changes no slot.     *)
C8_CounterWithinCapacity ==
  /\ [](tasks_counter >= 0 /\ tasks_counter <= MAX_TASKS)
  /\ [][(op' = "add" /\ tasks_counter = MAX_TASKS) =>
          /\ ret' = SCH_ERROR
          /\ tasks_counter' = tasks_counter
          /\ task_array' = task_array]_vars

\* a register was just refused by a full table
C8_Witness ==
  /\ op = "add"
  /\ ret = SCH_ERROR
  /\ tasks_counter = MAX_TASKS
  /\ BIT_GET(scheduler_status, SCH_STATUS_FLAG) = 1
  /\ \A i \in Slots : task_array[i].ptask # arg

(* C9: remove on an inactive slot returns success and changes no slot      *)
(* field and not the active count; after any remove(i) slot i is inactive, *)
(* so a second remove(i) changes nothing; the active count never goes      *)
(* below zero.                                                             *)
C9_RemoveIdempotent ==
  [][op' = "delete" =>
       /\ ret' = SCH_STATUS_OK
       /\ task_array'[arg'].ptask = NULL
       /\ tasks_counter' >= 0
       /\ task_array[arg'].ptask = NULL =>
            /\ task_array' = task_array
            /\ tasks_counter' = tasks_counter
            /\ scheduler_status' = scheduler_status]_vars

\* remove was just called on a slot no task was ever written to, with a
\* task registered in another slot
C9_Witness ==
  /\ op = "delete"
  /\ task_array[arg] = EmptyTask
  /\ tasks_counter > 0
  /\ \E i \in Slots : task_array[i].ptask # NULL

(* C10: start succeeds exactly when the five status flags are clear and    *)
(* the active count is within 1 .. MAX_TASKS; when it fails it does not    *)
(* return, and the main context never calls anything again.                *)
AllFlagsClear == \A b \in 0 .. 4 : (scheduler_status \div Pow2(b)) % 2 = 0

C10_StartGate ==
  /\ [][op' = "start" =>
          /\ ret' = SCH_STATUS_OK <=>
               (AllFlagsClear /\ tasks_counter >= 1 /\ tasks_counter <= MAX_TASKS)
          /\ ret' = SCH_STATUS_OK => pc' = "main"
          /\ ret' # SCH_STATUS_OK => (ret' = SCH_ERROR /\ pc' = "halt")]_vars
  /\ [][pc = "halt" => (pc' = "halt" /\ op' = "tick")]_vars

\* start just failed on a counter above capacity with every flag clear
C10_Witness ==
  /\ op = "start"
  /\ pc = "halt"
  /\ ret = SCH_ERROR
  /\ AllFlagsClear
  /\ ~(tasks_counter >= 0 /\ tasks_counter <= MAX_TASKS)

\* start just failed on a flag a rejected register left set, the counter being in range
C10_WitnessFlag ==
  /\ op = "start"
  /\ pc = "halt"
  /\ scheduler_status = 2
  /\ tasks_counter >= 1 /\ tasks_counter <= MAX_TASKS

\* start just succeeded
C10_WitnessOk == op = "start" /\ pc = "main" /\ ret = SCH_STATUS_OK

(* C11: when scheduler_init returns, every slot is inactive, the active    *)
(* count is 0 and the status flags are clear, whatever the table held.     *)
C11_InitClearsAll ==
  [][op' = "init" =>
       /\ \A i \in Slots : task_array'[i].ptask = NULL
       /\ tasks_counter' = 0
       /\ scheduler_status' = 0]_vars

(* C12: no two active slots hold the same callback.                        *)
C12_UniqueCallbacks ==
  \A i, j \in Slots :
    (i # j /\ task_array[i].ptask # NULL) => task_array[i].ptask # task_array[j].ptask

\* a register just succeeded next to another registered task
C12_Witness ==
  /\ op = "add"
  /\ ret = SCH_STATUS_OK
  /\ NumActive >= 2

(* C13, as stated: for every active task with period > 0, the delay is     *)
(* within 0 .. period in every state from its registration on.             *)
C13_DelayWithinPeriod ==
  \A i \in Slots :
    (task_array[i].ptask # NULL /\ task_array[i].period > 0) =>
      (0 <= task_array[i].delay /\ task_array[i].delay <= task_array[i].period)

(* C13, amended: for every active task with period > 0 the delay is never  *)
(* negative; it is at most the period from the first tick call that finds  *)
(* it 0 on, and at most the delay passed to register before that; a tick   *)
(* call that finds the delay 0 sets it to the period, every other tick     *)
(* call decrements it by one.                                              *)
C13_DelayBound ==
  \A i \in Slots :
    (task_array[i].ptask # NULL /\ task_array[i].period > 0) =>
      /\ 0 <= task_array[i].delay
      /\ \/ task_array[i].delay <= task_array[i].period
         \/ (since[i] = -1 /\ task_array[i].delay <= regd[i])

C13_DelayReload ==
  [][/\ C13_DelayBound'
     /\ op' = "tick" =>
          \A i \in Slots :
            (task_array[i].ptask # NULL /\ task_array[i].period > 0) =>
              task_array'[i].delay = IF task_array[i].delay = 0
                                       THEN task_array[i].period
                                       ELSE task_array[i].delay - 1]_vars

\* a task registered with a delay above its period has just been reloaded by tick
C13_Witness ==
  /\ op = "tick"
  /\ \E i \in Slots :
       /\ task_array[i].ptask # NULL
       /\ task_array[i].period > 0
       /\ regd[i] > task_array[i].period
       /\ since[i] = 0
       /\ task_array[i].delay = task_array[i].period

(* C14: every inactive slot has delay 0, period 0, status STOPPED, handle  *)
(* index 0 and an empty handle parameter.                                  *)
C14_InactiveSlotNeutral ==
  \A i \in Slots :
    task_array[i].ptask = NULL =>
      /\ task_array[i].delay = 0
      /\ task_array[i].period = 0
      /\ task_array[i].status = STOPPED
      /\ task_array[i].task_handler.index = 0
      /\ task_array[i].task_handler.parameter = NULL

(* C15: tick invokes no callback and changes only the delay and the status *)
(* of active slots: the active count, the status flags, every slot's       *)
(* callback, name, period and handle and every inactive slot are unchanged.*)
C15_TickFrame ==
  [][op' = "tick" =>
       /\ calls' = NoCalls \/ calls' = calls
       /\ tasks_counter' = tasks_counter
       /\ scheduler_status' = scheduler_status
       /\ \A i \in Slots :
            /\ task_array'[i].ptask = task_array[i].ptask
            /\ task_array'[i].task_name = task_array[i].task_name
            /\ task_array'[i].period = task_array[i].period
            /\ task_array'[i].task_handler = task_array[i].task_handler
            /\ task_array[i].ptask = NULL => task_array'[i] = task_array[i]]_vars

\* tick just set a task READY next to an inactive slot that held a periodic task
C15_Witness ==
  /\ op = "tick"
  /\ \E i, j \in Slots :
       /\ task_array[i].ptask # NULL
       /\ task_array[i].status = READY
       /\ since[i] = 0
       /\ task_array[j].ptask = NULL
       /\ task_array[j].period > 0

(* C16: a registered task with period 0 has status RUN_ALWAYS in every     *)
(* state, and the tick step maps no record with status RUN_ALWAYS or       *)
(* SUSPENDED to another status, whatever its delay.                        *)
HeldRecords ==
  [ptask : Tasks, task_name : Names, delay : 0 .. (MaxDelay + MaxPeriod),
   period : Periods, status : {RUN_ALWAYS, SUSPENDED},
   task_handler : [index : {0}, parameter : Params]]

C16_RunAlwaysKept ==
  /\ \A i \in Slots :
       (task_array[i].ptask # NULL /\ task_array[i].period = 0) =>
         task_array[i].status = RUN_ALWAYS
  /\ \A t \in HeldRecords : UpdateTask(t).status = t.status

\* tick just ran over a registered period-0 task whose delay is 0
C16_Witness ==
  /\ op = "tick"
  /\ \E i \in Slots :
       /\ task_array[i].ptask # NULL
       /\ task_array[i].period = 0
       /\ task_array[i].delay = 0
       /\ task_array[i].status = RUN_ALWAYS

(* C17: no slot has period 0 together with status READY, so dispatch       *)
(* removes no task: it leaves every slot's callback and the active count   *)
(* unchanged.                                                              *)
C17_NoOneShotRemoval ==
  [][/\ \A i \in Slots :
          ~(task_array'[i].period = 0 /\ task_array'[i].status = READY)
     /\ op' = "dispatch" =>
          /\ tasks_counter' = tasks_counter
          /\ \A i \in Slots : task_array'[i].ptask = task_array[i].ptask]_vars

\* dispatch just ran a period-0 task and a READY task and both are still registered
C17_Witness ==
  /\ op = "dispatch"
  /\ \E i, j \in Slots :
       /\ task_array[i].ptask # NULL /\ task_array[i].period = 0 /\ calls[i] = 1
       /\ task_array[j].ptask # NULL /\ task_array[j].period > 0 /\ calls[j] = 1

(* C19: every slot whose status is RUN_ALWAYS or READY is active, so       *)
(* dispatch never calls a NULL callback.                                   *)
C19_RunnableIsActive ==
  /\ \A i \in Slots :
       task_array[i].status \in {RUN_ALWAYS, READY} => task_array[i].ptask # NULL
  /\ pc # "fault"

\* dispatch just scanned a hole below the active count
C19_Witness ==
  /\ op = "dispatch"
  /\ \E i \in Slots :
       /\ i < tasks_counter
       /\ task_array[i].ptask = NULL
       /\ task_array[i].task_name # NULL

(* C20: the create flag is set exactly when the most recent register call  *)
(* failed (a later successful register clears it), so start succeeds when  *)
(* neither flag is set and the count is within 1 .. MAX_TASKS; the general *)
(* status flag is set by a table-full rejection only and stays set until   *)
(* scheduler_init.                                                         *)
CreateFlag(status) == (status \div 2) % 2
StatusFlag(status) == status % 2

C20_CreateFlagIsLastOutcome ==
  [][/\ op' = "add" => (CreateFlag(scheduler_status') = 1 <=> ret' = SCH_ERROR)
     /\ op' \notin {"add", "init"} =>
          CreateFlag(scheduler_status') = CreateFlag(scheduler_status)
     /\ (op' = "start" /\ CreateFlag(scheduler_status) = 0
           /\ StatusFlag(scheduler_status) = 0
           /\ tasks_counter >= 1 /\ tasks_counter <= MAX_TASKS) =>
          (ret' = SCH_STATUS_OK /\ pc' = "main")
     /\ (op' = "add" /\ ~(tasks_counter >= 0 /\ tasks_counter < MAX_TASKS)) =>
          StatusFlag(scheduler_status') = 1
     /\ (StatusFlag(scheduler_status) = 0 /\ StatusFlag(scheduler_status') = 1) =>
          (op' = "add" /\ ~(tasks_counter >= 0 /\ tasks_counter < MAX_TASKS))
     /\ (StatusFlag(scheduler_status) = 1 /\ op' # "init") =>
          StatusFlag(scheduler_status') = 1]_vars

\* a successful register just cleared the create flag a rejected duplicate had left
C20_Witness ==
  /\ op = "add"
  /\ ret = SCH_STATUS_OK
  /\ CreateFlag(before) = 1
  /\ StatusFlag(before) = 0
  /\ scheduler_status = 0

(* C18: with the tick allowed between any two statements of dispatch, a    *)
(* READY written by tick while dispatch is past the callback of that task  *)
(* is still there when dispatch returns.                                   *)
C18_ReadyNotLost ==
  \A i \in Slots :
    (pc = "main" /\ ticked[i]) => task_array[i].status = READY

====
